---- MODULE Spec2Model ----
(***************************************************************************)
(* Advertisements API (FastAPI): users, bearer tokens, advertisements.     *)
(* State is the two database tables (models.py), the wall clock, the       *)
(* tokens handed out by /login and the requests that are between their     *)
(* uniqueness lookup and their write.  resp is the response of the last    *)
(* completed request, kept as a history variable.                          *)
(***************************************************************************)
EXTENDS Integers, FiniteSets, Sequences, TLC

VARIABLES users, ads, nextUserId, nextAdId, now, tokens, pending, resp

vars == <<users, ads, nextUserId, nextAdId, now, tokens, pending, resp>>

(***************************** bounds **************************************)
MaxUserId == 2
MaxAdId == 2
MaxTokens == 2
MaxInFlight == 2
MaxJumps == 1

(************************* values of the domain ****************************)
\* Python None / SQL NULL for text and for numeric values
NULL == "NULL"
NONE == 0 - 1
\* a payload field that the request body does not mention (exclude_unset)
UNSET == "UNSET"
UNSETNUM == 0 - 2

Usernames == {"alice", "bob"}
Passwords == {"pw1", "pw2"}
Salts == {1}

\* clock ticks per second: datetime.now() has sub-second resolution, the
\* exp claim of a token has whole seconds
TicksPerSec == 2
ACCESS_TOKEN_EXPIRE_HOURS == 48
Hours(h) == h * 3600 * TicksPerSec

(***************************** credential hasher ***************************)
\* pwd_context.hash: salted digest, the salt is drawn per call
get_password_hash(password, salt) == [salt |-> salt, digest |-> password]

verify_password(plain_password, hashed_password) ==
    hashed_password.digest = plain_password

(***************************** tokens **************************************)
\* jose turns a datetime exp into whole seconds (timegm(utctimetuple()))
Timegm(t) == t \div TicksPerSec

\* create_access_token: a falsy expires_delta (None or a zero timedelta)
\* gives the default life time
create_access_token(sub, expires_delta, t) ==
    LET expire == IF expires_delta # NONE /\ expires_delta # 0
                  THEN t + expires_delta
                  ELSE t + Hours(ACCESS_TOKEN_EXPIRE_HOURS)
    IN  [kind |-> "signed", sub |-> sub, exp |-> Timegm(expire)]

\* a token as the model keeps it: the claims of the JWT, and as history the id
\* of the user whose login issued it (0: no login), the time of issue and the
\* time to live asked for (the default where none is given)
Issued(token, uid, expires_delta, t) ==
    [kind |-> token.kind, sub |-> token.sub, exp |-> token.exp, uid |-> uid,
     iat |-> t,
     ttl |-> IF expires_delta = NONE THEN Hours(ACCESS_TOKEN_EXPIRE_HOURS)
             ELSE expires_delta]

\* credentials a client can present besides a token it was given
NoCred == [kind |-> "none", sub |-> NULL, exp |-> NONE, uid |-> 0,
           iat |-> 0, ttl |-> 0]
Forged == [kind |-> "forged", sub |-> "alice", exp |-> NONE, uid |-> 0,
           iat |-> 0, ttl |-> 0]
NoSub == [kind |-> "nosub", sub |-> NULL, exp |-> NONE, uid |-> 0,
           iat |-> 0, ttl |-> 0]

\* jwt.decode + payload.get("sub"): the subject, or NULL where the code
\* takes the JWTError / missing subject branch
jwt_decode(token, t) ==
    IF token.kind = "forged" THEN NULL
    ELSE IF token.exp # NONE /\ token.exp < Timegm(t) THEN NULL
    ELSE token.sub

(***************************** store lookups *******************************)
UserIds == DOMAIN users
AdIds == DOMAIN ads

\* select(User).where(User.username == username) -> set of matching ids
ByUsername(username) == {i \in UserIds : users[i].username = username}

Anonymous == 0

\* get_optional_user: the resolved user id, or Anonymous
get_optional_user(cred, t) ==
    IF cred.kind = "none" THEN Anonymous
    ELSE LET username == jwt_decode(cred, t)
         IN  IF username = NULL THEN Anonymous
             ELSE IF ByUsername(username) = {} THEN Anonymous
             ELSE CHOOSE i \in ByUsername(username) : TRUE

\* get_current_user: the resolved user id, or Anonymous where the code
\* raises credentials_exception
get_current_user(cred, t) ==
    LET username == jwt_decode(cred, t)
    IN  IF username = NULL THEN Anonymous
        ELSE IF ByUsername(username) = {} THEN Anonymous
        ELSE CHOOSE i \in ByUsername(username) : TRUE

GroupOf(uid) == IF uid = Anonymous THEN NULL ELSE users[uid].group

(***************************** responses ***********************************)
NoPayload == <<>>

Response(op, status, detail) ==
    [op |-> op, status |-> status, detail |-> detail,
     caller |-> Anonymous, group |-> NULL, target |-> 0, found |-> FALSE,
     owner |-> NONE, payload |-> NoPayload, clash |-> FALSE,
     cred |-> "none", sub |-> NULL, holder |-> 0, holderGone |-> FALSE,
     claimed |-> NULL, iat |-> 0, ttl |-> 0, at |-> 0]

\* what the request carried: the kind of credential, the subject jwt_decode
\* gave for it and the history of the token
WithCred(r, cred, t) ==
    [r EXCEPT !.cred = cred.kind, !.sub = jwt_decode(cred, t),
              !.holder = cred.uid,
              !.holderGone = (cred.uid # 0 /\ cred.uid \notin UserIds),
              !.claimed = cred.sub, !.iat = cred.iat, !.ttl = cred.ttl,
              !.at = t]

Idle == [op |-> "idle"]

\* no response is on its way to a client
NoResponse == Response("none", 0, "")

\* a row written before owner_id existed (owner_id is nullable)
LegacyAd == [title |-> "t0", description |-> "d0", price |-> 1, author |-> "a0",
             created_at |-> 0, owner_id |-> NONE]

\* empty tables, or an advertisements table that holds a legacy row
Init ==
    /\ users = <<>>
    /\ \/ ads = <<>> /\ nextAdId = 1
       \/ ads = <<LegacyAd>> /\ nextAdId = 2
    /\ nextUserId = 1
    /\ now = 0
    /\ tokens = {}
    /\ pending = [s \in 1..MaxInFlight |-> Idle]
    /\ resp = NoResponse

(***************************** the clock ***********************************)
\* one second more than the life time of a login token
Expiry == Hours(ACCESS_TOKEN_EXPIRE_HOURS) + TicksPerSec

\* time passes; the model looks at the clock at the start and in the second
\* that follows the end of a token's life
Advance(d) ==
    /\ now + d <= MaxJumps * Expiry
    /\ (now + d) % Hours(ACCESS_TOKEN_EXPIRE_HOURS) <= TicksPerSec
    /\ now' = now + d
    /\ UNCHANGED <<users, ads, nextUserId, nextAdId, tokens, pending, resp>>

\* the response of the last request leaves the server
deliver ==
    /\ resp # NoResponse
    /\ resp' = NoResponse
    /\ UNCHANGED <<users, ads, nextUserId, nextAdId, now, tokens, pending>>

(***************************** POST /login *********************************)
login(username, password) ==
    LET found == ByUsername(username)
        user == CHOOSE i \in found : TRUE
    IN  IF found = {} \/ ~verify_password(password, users[user].password)
        THEN /\ resp' = Response("login", 401, "Incorrect username or password")
             /\ UNCHANGED <<users, ads, nextUserId, nextAdId, now, tokens, pending>>
        ELSE LET t == create_access_token(users[user].username,
                                          Hours(48), now)
                 issued == Issued(t, user, Hours(48), now)
             IN  /\ Cardinality(tokens \cup {issued}) <= MaxTokens
                 /\ tokens' = tokens \cup {issued}
                 /\ resp' = [Response("login", 200, "") EXCEPT
                               !.caller = user, !.sub = t.sub, !.holder = user]
                 /\ UNCHANGED <<users, ads, nextUserId, nextAdId, now, pending>>

(***************************** Required resolution ***********************)
\* security = HTTPBearer(): with no Authorization header the dependency
\* itself answers, 403 up to FastAPI 0.121 and 401 from 0.122 on
MissingCredentialStatus == {401, 403}

\* Depends(get_current_active_user) is resolved before the handler body runs.
\* RequiredDenied(op, cred) is the set of responses with which the dependency
\* rejects the request; empty when it resolves to a user.
RequiredDenied(op, cred) ==
    IF cred.kind = "none"
    THEN {WithCred(Response(op, st, "Not authenticated"), cred, now) :
             st \in MissingCredentialStatus}
    ELSE IF get_current_user(cred, now) = Anonymous
    THEN {WithCred(Response(op, 401, "Could not validate credentials"), cred, now)}
    ELSE {}

FreeSlots == {s \in 1..MaxInFlight : pending[s].op = "idle"}
FreeSlot == CHOOSE s \in FreeSlots : \A r \in FreeSlots : s <= r

(***************************** POST /user **********************************)
\* lines 44-56 of create_user: the lookup and the group check; a request that
\* passes them waits for its INSERT
create_user_check(user) ==
    /\ UNCHANGED <<users, ads, nextUserId, nextAdId, now, tokens>>
    /\ IF ByUsername(user.username) # {}
       THEN /\ resp' = [Response("create_user", 400, "Username already registered")
                          EXCEPT !.clash = TRUE, !.payload = user]
            /\ UNCHANGED pending
       ELSE IF user.group \notin {"user", "admin"}
       THEN /\ resp' = [Response("create_user", 400, "Group must be 'user' or 'admin'")
                          EXCEPT !.payload = user]
            /\ UNCHANGED pending
       ELSE /\ FreeSlots # {}
            /\ nextUserId + Cardinality({s \in 1..MaxInFlight :
                                pending[s].op = "create_user"}) <= MaxUserId
            /\ pending' = [pending EXCEPT ![FreeSlot] =
                              [op |-> "create_user", user |-> user]]
            /\ UNCHANGED resp

\* a users table without the unique index
NoUniqueIndex(username, except) == FALSE

\* the unique index on users.username (models.py line 11)
UniqueViolation(username, except) ==
    \E i \in UserIds : i # except /\ users[i].username = username

\* lines 58-66 of create_user: db.add, commit, refresh.  An IntegrityError of
\* the commit is not caught and leaves the handler as a 500.
create_user_commit(s, salt) ==
    /\ pending[s].op = "create_user"
    /\ pending' = [pending EXCEPT ![s] = Idle]
    /\ UNCHANGED <<ads, nextAdId, now, tokens>>
    /\ LET user == pending[s].user
           db_user == [username |-> user.username,
                       password |-> get_password_hash(user.password, salt),
                       group |-> user.group]
       IN  IF UniqueViolation(user.username, 0)
           THEN /\ resp' = [Response("create_user", 500, "Internal Server Error")
                              EXCEPT !.clash = TRUE, !.payload = user]
                /\ UNCHANGED <<users, nextUserId>>
           ELSE /\ users' = [i \in UserIds \cup {nextUserId} |->
                               IF i = nextUserId THEN db_user ELSE users[i]]
                /\ nextUserId' = nextUserId + 1
                /\ resp' = [Response("create_user", 200, "")
                              EXCEPT !.target = nextUserId, !.payload = user]

(***************************** PATCH /user/{user_id} ***********************)
\* the permission check placed before the lookup of the target
UserDenialAuthFirst(current_user, user_id) ==
    IF users[current_user].group # "admin" /\ current_user # user_id
    THEN <<403, "Insufficient permissions">>
    ELSE IF user_id \notin UserIds
    THEN <<404, "User not found">>
    ELSE <<0, "">>

\* lines 87-96 of update_user and 137-146 of delete_user: the target must
\* exist, then the caller must be an admin or the target.  <<0, "">>: passed.
UserDenial(current_user, user_id) ==
    IF user_id \notin UserIds
    THEN <<404, "User not found">>
    ELSE IF users[current_user].group # "admin" /\ current_user # user_id
    THEN <<403, "Insufficient permissions">>
    ELSE <<0, "">>

\* user_update.model_dump(exclude_unset=True): the names of the fields the
\* body mentions
UserFields == {"username", "password", "group"}
update_data_keys(user_update) == {f \in UserFields : user_update[f] # UNSET}

\* the pydantic attribute: None for an absent field as for an explicit null
Attr(model, f) == IF model[f] = UNSET THEN NULL ELSE model[f]

\* lines 87-121 and 123 of update_user: every check before the UPDATE
update_user_check(cred, user_id, user_update) ==
    /\ UNCHANGED <<users, ads, nextUserId, nextAdId, now, tokens>>
    /\ LET denied == RequiredDenied("update_user", cred)
           current_user == get_current_user(cred, now)
           base == [WithCred(Response("update_user", 0, ""), cred, now) EXCEPT
                      !.caller = current_user, !.group = GroupOf(current_user),
                      !.target = user_id, !.found = user_id \in UserIds,
                      !.payload = user_update]
           keys == update_data_keys(user_update)
       IN  IF denied # {}
           THEN /\ \E r \in denied :
                     resp' = [r EXCEPT !.target = user_id,
                                       !.found = user_id \in UserIds,
                                       !.payload = user_update]
                /\ UNCHANGED pending
           ELSE IF UserDenial(current_user, user_id)[1] # 0
           THEN /\ resp' = [base EXCEPT
                               !.status = UserDenial(current_user, user_id)[1],
                               !.detail = UserDenial(current_user, user_id)[2]]
                /\ UNCHANGED pending
           ELSE IF Attr(user_update, "group") # NULL
                   /\ users[current_user].group # "admin"
           THEN /\ resp' = [base EXCEPT !.status = 403,
                                        !.detail = "Only admin can change user group"]
                /\ UNCHANGED pending
           ELSE IF Attr(user_update, "group") # NULL
                   /\ Attr(user_update, "group") \notin {"user", "admin"}
           THEN /\ resp' = [base EXCEPT !.status = 400,
                                        !.detail = "Group must be 'user' or 'admin'"]
                /\ UNCHANGED pending
           ELSE IF "password" \in keys /\ user_update.password = NULL
           THEN \* pwd_context.hash(None) raises TypeError
                /\ resp' = [base EXCEPT !.status = 500,
                                        !.detail = "Internal Server Error"]
                /\ UNCHANGED pending
           ELSE IF "username" \in keys
                   /\ \E e \in ByUsername(user_update.username) : e # user_id
           THEN /\ resp' = [base EXCEPT !.status = 400, !.clash = TRUE,
                                        !.detail = "Username already registered"]
                /\ UNCHANGED pending
           ELSE IF keys = {}
           THEN /\ resp' = [base EXCEPT !.status = 200]
                /\ UNCHANGED pending
           ELSE /\ FreeSlots # {}
                /\ pending' = [pending EXCEPT ![FreeSlot] =
                                  [op |-> "update_user", base |-> base]]
                /\ UNCHANGED resp

\* update(User).where(User.id == user_id).values(**update_data)
ApplyUserUpdate(user, user_update, salt) ==
    [username |-> IF user_update.username = UNSET THEN user.username
                  ELSE user_update.username,
     password |-> IF user_update.password = UNSET THEN user.password
                  ELSE get_password_hash(user_update.password, salt),
     group    |-> IF user_update.group = UNSET THEN user.group
                  ELSE user_update.group]

\* lines 124-129 of update_user: UPDATE, commit, re-read, response.  A row
\* that is gone makes user None and user.id raise; a NOT NULL or UNIQUE
\* violation raises IntegrityError; both surface as 500.
update_user_commit(s, salt) ==
    /\ pending[s].op = "update_user"
    /\ pending' = [pending EXCEPT ![s] = Idle]
    /\ UNCHANGED <<ads, nextUserId, nextAdId, now, tokens>>
    /\ LET base == pending[s].base
           user_id == base.target
           user_update == base.payload
           keys == update_data_keys(user_update)
           failed == [base EXCEPT !.status = 500,
                                  !.detail = "Internal Server Error"]
       IN  IF user_id \notin UserIds
           THEN /\ resp' = failed
                /\ UNCHANGED users
           ELSE IF \E f \in keys \ {"password"} : user_update[f] = NULL
           THEN /\ resp' = failed
                /\ UNCHANGED users
           ELSE IF "username" \in keys
                   /\ UniqueViolation(user_update.username, user_id)
           THEN /\ resp' = [failed EXCEPT !.clash = TRUE]
                /\ UNCHANGED users
           ELSE /\ users' = [users EXCEPT ![user_id] =
                               ApplyUserUpdate(users[user_id], user_update, salt)]
                /\ resp' = [base EXCEPT !.status = 200]

(***************************** DELETE /user/{user_id} **********************)
delete_user(cred, user_id) ==
    /\ UNCHANGED <<ads, nextUserId, nextAdId, now, tokens, pending>>
    /\ LET denied == RequiredDenied("delete_user", cred)
           current_user == get_current_user(cred, now)
           base == [WithCred(Response("delete_user", 0, ""), cred, now) EXCEPT
                      !.caller = current_user, !.group = GroupOf(current_user),
                      !.target = user_id, !.found = user_id \in UserIds]
       IN  IF denied # {}
           THEN /\ \E r \in denied :
                     resp' = [r EXCEPT !.target = user_id,
                                       !.found = user_id \in UserIds]
                /\ UNCHANGED users
           ELSE IF UserDenial(current_user, user_id)[1] # 0
           THEN /\ resp' = [base EXCEPT
                               !.status = UserDenial(current_user, user_id)[1],
                               !.detail = UserDenial(current_user, user_id)[2]]
                /\ UNCHANGED users
           ELSE /\ users' = [i \in UserIds \ {user_id} |-> users[i]]
                /\ resp' = [base EXCEPT !.status = 200]

(***************************** POST /advertisement ************************)
AdFields == {"title", "description", "price", "author"}

\* ad_update.model_dump(exclude_unset=True): the fields the body mentions
ad_update_keys(ad_update) ==
    {f \in AdFields : IF f = "price" THEN ad_update[f] # UNSETNUM
                                     ELSE ad_update[f] # UNSET}

create_ad(cred, ad) ==
    /\ UNCHANGED <<users, nextUserId, now, tokens, pending>>
    /\ LET current_user == get_optional_user(cred, now)
           base == [WithCred(Response("create_ad", 0, ""), cred, now) EXCEPT
                      !.caller = current_user, !.group = GroupOf(current_user),
                      !.target = nextAdId, !.payload = ad]
       IN  IF current_user = Anonymous
           THEN /\ resp' = [base EXCEPT !.status = 401,
                                        !.detail = "Authentication required"]
                /\ UNCHANGED <<ads, nextAdId>>
           ELSE LET db_ad == [title |-> ad.title, description |-> ad.description,
                              price |-> ad.price, author |-> ad.author,
                              created_at |-> now, owner_id |-> current_user]
                IN  /\ nextAdId <= MaxAdId
                    /\ ads' = [i \in AdIds \cup {nextAdId} |->
                                 IF i = nextAdId THEN db_ad ELSE ads[i]]
                    /\ nextAdId' = nextAdId + 1
                    /\ resp' = [base EXCEPT !.status = 200,
                                            !.owner = current_user]

(***************************** PATCH /advertisement/{ad_id} ****************)
\* the ownership test without its "owner_id is None" half, written as
\* "owner_id is not None and owner_id != current_user.id"
AdDenialUnowned(current_user, ad_id) ==
    IF ad_id \notin AdIds
    THEN <<404, "Advertisement not found">>
    ELSE IF current_user = Anonymous
    THEN <<401, "Authentication required">>
    ELSE IF /\ users[current_user].group # "admin"
            /\ ads[ad_id].owner_id # NONE
            /\ ads[ad_id].owner_id # current_user
    THEN <<403, "Insufficient permissions">>
    ELSE <<0, "">>

\* lines 190-206 of update_ad and 222-238 of delete_ad: the advertisement must
\* exist, the caller must be resolved, and a caller who is no admin must be
\* the owner.  <<0, "">>: passed.
AdDenial(current_user, ad_id) ==
    IF ad_id \notin AdIds
    THEN <<404, "Advertisement not found">>
    ELSE IF current_user = Anonymous
    THEN <<401, "Authentication required">>
    ELSE IF /\ users[current_user].group # "admin"
            /\ \/ ads[ad_id].owner_id = NONE
               \/ ads[ad_id].owner_id # current_user
    THEN <<403, "Insufficient permissions">>
    ELSE <<0, "">>

\* an UPDATE that also writes owner_id, as a body dumped with an owner_id
\* field left at its default would
ApplyAdUpdateOwner(ad, ad_update) ==
    [title       |-> IF ad_update.title = UNSET THEN ad.title
                     ELSE ad_update.title,
     description |-> IF ad_update.description = UNSET THEN ad.description
                     ELSE ad_update.description,
     price       |-> IF ad_update.price = UNSETNUM THEN ad.price
                     ELSE ad_update.price,
     author      |-> IF ad_update.author = UNSET THEN ad.author
                     ELSE ad_update.author,
     created_at  |-> ad.created_at,
     owner_id    |-> NONE]

\* an UPDATE from model_dump() without exclude_unset: absent fields go to NULL
ApplyAdUpdateAll(ad, ad_update) ==
    [title       |-> IF ad_update.title = UNSET THEN NULL
                     ELSE ad_update.title,
     description |-> IF ad_update.description = UNSET THEN NULL
                     ELSE ad_update.description,
     price       |-> IF ad_update.price = UNSETNUM THEN NONE
                     ELSE ad_update.price,
     author      |-> IF ad_update.author = UNSET THEN NULL
                     ELSE ad_update.author,
     created_at  |-> ad.created_at,
     owner_id    |-> ad.owner_id]

\* update(Advertisement).where(id == ad_id).values(**update_data)
ApplyAdUpdate(ad, ad_update) ==
    [title       |-> IF ad_update.title = UNSET THEN ad.title
                     ELSE ad_update.title,
     description |-> IF ad_update.description = UNSET THEN ad.description
                     ELSE ad_update.description,
     price       |-> IF ad_update.price = UNSETNUM THEN ad.price
                     ELSE ad_update.price,
     author      |-> IF ad_update.author = UNSET THEN ad.author
                     ELSE ad_update.author,
     created_at  |-> ad.created_at,
     owner_id    |-> ad.owner_id]

\* AdvertisementResponse wants title, description, price and author non-null
ValidAdResponse(ad) ==
    /\ ad.title # NULL /\ ad.description # NULL
    /\ ad.price # NONE /\ ad.author # NULL

update_ad(cred, ad_id, ad_update) ==
    /\ UNCHANGED <<users, nextUserId, nextAdId, now, tokens, pending>>
    /\ LET current_user == get_optional_user(cred, now)
           base == [WithCred(Response("update_ad", 0, ""), cred, now) EXCEPT
                      !.caller = current_user, !.group = GroupOf(current_user),
                      !.target = ad_id, !.found = ad_id \in AdIds,
                      !.owner = IF ad_id \in AdIds THEN ads[ad_id].owner_id
                                ELSE NONE,
                      !.payload = ad_update]
       IN  IF AdDenial(current_user, ad_id)[1] # 0
           THEN /\ resp' = [base EXCEPT
                               !.status = AdDenial(current_user, ad_id)[1],
                               !.detail = AdDenial(current_user, ad_id)[2]]
                /\ UNCHANGED ads
           ELSE LET updated == ApplyAdUpdate(ads[ad_id], ad_update)
                IN  /\ ads' = [ads EXCEPT ![ad_id] = updated]
                    /\ resp' = [base EXCEPT
                          !.status = IF ValidAdResponse(updated) THEN 200 ELSE 500,
                          !.detail = IF ValidAdResponse(updated) THEN ""
                                     ELSE "Internal Server Error"]

(***************************** DELETE /advertisement/{ad_id} ***************)
delete_ad(cred, ad_id) ==
    /\ UNCHANGED <<users, nextUserId, nextAdId, now, tokens, pending>>
    /\ LET current_user == get_optional_user(cred, now)
           base == [WithCred(Response("delete_ad", 0, ""), cred, now) EXCEPT
                      !.caller = current_user, !.group = GroupOf(current_user),
                      !.target = ad_id, !.found = ad_id \in AdIds,
                      !.owner = IF ad_id \in AdIds THEN ads[ad_id].owner_id
                                ELSE NONE]
       IN  IF AdDenial(current_user, ad_id)[1] # 0
           THEN /\ resp' = [base EXCEPT
                               !.status = AdDenial(current_user, ad_id)[1],
                               !.detail = AdDenial(current_user, ad_id)[2]]
                /\ UNCHANGED ads
           ELSE /\ ads' = [i \in AdIds \ {ad_id} |-> ads[i]]
                /\ resp' = [base EXCEPT !.status = 200]

(***************************** the token functions on their own ************)
\* a call of create_access_token(data={"sub": sub}, expires_delta)
issue(sub, expires_delta) ==
    LET t == Issued(create_access_token(sub, expires_delta, now), 0,
                    expires_delta, now)
    IN  /\ Cardinality(tokens \cup {t}) <= MaxTokens
        /\ tokens' = tokens \cup {t}
        /\ resp' = [Response("issue", 200, "") EXCEPT !.sub = sub]
        /\ UNCHANGED <<users, ads, nextUserId, nextAdId, now, pending>>

\* the dependency get_current_user (behind HTTPBearer()) run for a request
resolve_required(cred) ==
    /\ UNCHANGED <<users, ads, nextUserId, nextAdId, now, tokens, pending>>
    /\ IF RequiredDenied("get_current_user", cred) # {}
       THEN resp' \in RequiredDenied("get_current_user", cred)
       ELSE resp' = [WithCred(Response("get_current_user", 200, ""), cred, now)
                       EXCEPT !.caller = get_current_user(cred, now),
                              !.group = GroupOf(get_current_user(cred, now))]

\* the dependency get_optional_user run for a request
resolve_optional(cred) ==
    /\ UNCHANGED <<users, ads, nextUserId, nextAdId, now, tokens, pending>>
    /\ resp' = [WithCred(Response("get_optional_user", 200, ""), cred, now)
                  EXCEPT !.caller = get_optional_user(cred, now),
                         !.group = GroupOf(get_optional_user(cred, now))]

\* the table after one registration, and the empty one
InitToken ==
    /\ \/ users = <<>> /\ nextUserId = 1
       \/ /\ users = <<[username |-> "alice",
                         password |-> get_password_hash("pw1", 1),
                         group |-> "user"]>>
          /\ nextUserId = 2
    /\ ads = <<>>
    /\ nextAdId = 1
    /\ now = 0
    /\ tokens = {}
    /\ pending = [s \in 1..MaxInFlight |-> Idle]
    /\ resp = NoResponse

(***************************** request inputs ******************************)
Credentials == {NoCred, Forged, NoSub} \cup tokens

UserCreates ==
    [username : Usernames, password : {"pw1"}, group : {"user", "admin", "root"}]

\* bodies of PATCH /user: every body with at most one field, and the bodies
\* that set all three
UserUpdates ==
    LET all == [username : {UNSET, NULL} \cup Usernames,
                password : {UNSET, NULL, "pw2"},
                group : {UNSET, NULL, "admin", "root"}]
    IN  {u \in all : \/ Cardinality(update_data_keys(u)) <= 1
                     \/ \A f \in UserFields : u[f] \notin {UNSET, NULL, "root"}}

TargetIds == 1..MaxUserId

AdCreates == {[title |-> "t1", description |-> "d1", price |-> 5, author |-> "a1"]}

\* bodies of PATCH /advertisement: every body with at most one field, and the
\* body that sets all four
AdUpdates ==
    LET all == [title : {UNSET, NULL, "t2"}, description : {UNSET, "d2"},
                price : {UNSETNUM, 10}, author : {UNSET, "a2"}]
    IN  {u \in all : \/ ad_update_keys(u) \in {{}, {"price"}}
                     \/ (ad_update_keys(u) = {"title"} /\ u.title = NULL)
                     \/ (ad_update_keys(u) = AdFields /\ u.title # NULL)}

AdTargetIds == 1..MaxAdId

\* the bodies of PATCH /user used next to the advertisement requests
FewUserUpdates ==
    {u \in UserUpdates : \/ update_data_keys(u) = {}
                         \/ (update_data_keys(u) = {"username"} /\ u.username = "bob")
                         \/ (update_data_keys(u) = {"group"} /\ u.group = "admin")
                         \/ (update_data_keys(u) = UserFields /\ u.username = "alice")}

\* a rename and nothing else: the bodies of the uniqueness race
Renames == {u \in UserUpdates : update_data_keys(u) = {"username"} /\ u.username # NULL}

(***************************** specifications ******************************)
\* no request is between its checks and its write
Quiet == FreeSlots = 1..MaxInFlight

\* the last response has left
Ready == resp = NoResponse

\* the credentials sent to the advertisement endpoints
SomeCredentials == {NoCred} \cup tokens

\* every endpoint, requests served one after the other
Next ==
    \/ deliver
    \/ Ready /\ Quiet /\ \E u \in Usernames, p \in Passwords : login(u, p)
    \/ Ready /\ Quiet /\ \E user \in UserCreates : create_user_check(user)
    \/ Ready /\ \E s \in 1..MaxInFlight, salt \in Salts : create_user_commit(s, salt)
    \/ Ready /\ Quiet /\ \E cred \in SomeCredentials, id \in TargetIds, u \in FewUserUpdates :
          update_user_check(cred, id, u)
    \/ Ready /\ \E s \in 1..MaxInFlight, salt \in Salts : update_user_commit(s, salt)
    \/ Ready /\ Quiet /\ \E cred \in SomeCredentials, id \in TargetIds : delete_user(cred, id)
    \/ Ready /\ Quiet /\ \E cred \in SomeCredentials, ad \in AdCreates : create_ad(cred, ad)
    \/ Ready /\ Quiet /\ \E cred \in SomeCredentials, id \in AdTargetIds, u \in AdUpdates :
          update_ad(cred, id, u)
    \/ Ready /\ Quiet /\ \E cred \in SomeCredentials, id \in AdTargetIds : delete_ad(cred, id)

Spec == Init /\ [][Next]_vars

\* the user endpoints and the clock, requests served one after the other
NextUsers ==
    \/ deliver
    \/ Ready /\ Quiet /\ Advance(Expiry)
    \/ Ready /\ Quiet /\ \E u \in Usernames, p \in Passwords : login(u, p)
    \/ Ready /\ Quiet /\ \E user \in UserCreates : create_user_check(user)
    \/ Ready /\ \E s \in 1..MaxInFlight, salt \in Salts : create_user_commit(s, salt)
    \/ Ready /\ Quiet /\ \E cred \in Credentials, id \in TargetIds, u \in UserUpdates :
          update_user_check(cred, id, u)
    \/ Ready /\ \E s \in 1..MaxInFlight, salt \in Salts : update_user_commit(s, salt)
    \/ Ready /\ Quiet /\ \E cred \in Credentials, id \in TargetIds : delete_user(cred, id)

SpecUsers == Init /\ [][NextUsers]_vars

\* registrations and renames served concurrently
NextRace ==
    \/ deliver
    \/ Ready /\ \E u \in Usernames, p \in Passwords : login(u, p)
    \/ Ready /\ \E user \in UserCreates : create_user_check(user)
    \/ Ready /\ \E s \in 1..MaxInFlight, salt \in Salts : create_user_commit(s, salt)
    \/ Ready /\ \E cred \in Credentials, id \in TargetIds, u \in Renames :
          update_user_check(cred, id, u)
    \/ Ready /\ \E s \in 1..MaxInFlight, salt \in Salts : update_user_commit(s, salt)

SpecRace == Init /\ [][NextRace]_vars

\* the life times handed to create_access_token: none, zero, a second, 48 h
Deltas == {NONE, 0, TicksPerSec, Hours(48)}

\* tokens issued, aged and resolved
NextToken ==
    \/ deliver
    \/ Ready /\ \E d \in {1, Hours(ACCESS_TOKEN_EXPIRE_HOURS)} : Advance(d)
    \/ Ready /\ \E sub \in Usernames, delta \in Deltas : issue(sub, delta)
    \/ Ready /\ \E cred \in Credentials : resolve_required(cred)
    \/ Ready /\ \E cred \in Credentials : resolve_optional(cred)

SpecToken == InitToken /\ [][NextToken]_vars

(***************************** properties **********************************)
AdOps == {"update_ad", "delete_ad"}
UserOps == {"update_user", "delete_user"}

\* the request got past existence, authentication and authorization
Allowed(r) == r.status \notin {401, 403, 404}

\* the order in which the claim decides an ownership-gated request
C1_Decision ==
    resp.op \in AdOps /\ resp.found =>
        IF resp.caller = Anonymous THEN resp.status = 401
        ELSE IF resp.group = "admin" THEN Allowed(resp)
        ELSE IF resp.owner = NONE THEN resp.status = 403
        ELSE IF resp.caller = resp.owner THEN Allowed(resp)
        ELSE resp.status = 403

\* an advertisement changes or goes only in a request on it by its owner or
\* by an admin
C1_OnlyOwnerOrAdmin ==
    \A a \in AdIds :
        (a \notin DOMAIN ads' \/ ads'[a] # ads[a]) =>
            /\ resp'.op \in AdOps
            /\ resp'.target = a
            /\ resp'.caller # Anonymous
            /\ resp'.group = "admin" \/ resp'.caller = ads[a].owner_id

\* C1: update_ad and delete_ad on an existing advertisement answer 401 to an
\* anonymous caller, let an admin through, answer 403 for a null owner_id,
\* and otherwise let the caller through iff it is the owner; so an
\* advertisement is modified or removed only by its owner or an admin.
C1_OwnershipGate == []C1_Decision /\ [][C1_OnlyOwnerOrAdmin]_vars

\* an admin has deleted an advertisement owned by somebody else
C1_Witness ==
    /\ resp.op = "delete_ad" /\ resp.status = 200
    /\ resp.group = "admin"
    /\ resp.owner \notin {NONE, resp.caller}

C2_Step ==
    /\ (resp = NoResponse /\ resp'.op = "create_ad") =>
          IF resp'.caller = Anonymous
          THEN resp'.status = 401 /\ ads' = ads
          ELSE /\ resp'.status = 200
               /\ resp'.caller \in UserIds
               /\ DOMAIN ads' = AdIds \cup {resp'.target}
               /\ resp'.target \notin AdIds
               /\ ads'[resp'.target].owner_id = resp'.caller
    /\ (DOMAIN ads' # AdIds /\ Cardinality(DOMAIN ads') > Cardinality(AdIds)) =>
          resp'.op = "create_ad"
    /\ \A a \in AdIds \cap DOMAIN ads' : ads'[a].owner_id = ads[a].owner_id

\* C2: create_ad stores the id of the authenticated caller as owner_id (an
\* anonymous create_ad answers 401 and stores nothing), and no later request
\* changes the owner_id of a stored advertisement.
C2_OwnerBoundAtCreation == [][C2_Step]_vars

\* an advertisement whose owner has been deleted has been updated (by an
\* admin) and still carries the owner's id
C2_Witness ==
    /\ resp.op = "update_ad" /\ resp.status = 200
    /\ resp.target \in AdIds
    /\ ads[resp.target].owner_id # NONE
    /\ ads[resp.target].owner_id \notin UserIds
    /\ ads[resp.target].owner_id = resp.owner

\* C3: no two stored users have the same username, also when two requests
\* for the same username both pass their lookup before either writes.
C3_UniqueUsernames ==
    \A i \in UserIds, j \in UserIds :
        i # j => users[i].username # users[j].username

\* a request passed its lookup and was stopped by the unique index at the write
C3_Witness ==
    /\ resp.op \in {"create_user", "update_user"}
    /\ resp.clash /\ resp.status = 500
    /\ Cardinality(UserIds) = 2

C4_Response ==
    (resp.op \in {"create_user", "update_user"} /\ resp.clash) =>
        resp.status = 400 /\ resp.detail = "Username already registered"

C4_UsersKept ==
    (resp = NoResponse /\ resp'.op \in {"create_user", "update_user"}
       /\ resp'.clash) => users' = users

\* C4: a create_user or update_user whose username is held by another user
\* ends with the "Username already registered" error and leaves the stored
\* users unchanged, also when the clash is found by the unique index at
\* write time.
C4_ConflictTranslated == []C4_Response /\ [][C4_UsersKept]_vars

C5_Decision ==
    resp.op \in UserOps /\ resp.found =>
        IF resp.caller = Anonymous THEN resp.status = 401
        ELSE IF ~(resp.group = "admin" \/ resp.caller = resp.target)
        THEN resp.status = 403
        ELSE /\ ~(resp.status = 403 /\ resp.detail = "Insufficient permissions")
             /\ resp.status # 401
             /\ (/\ resp.op = "update_user"
                 /\ resp.payload.group \notin {UNSET, NULL}
                 /\ resp.group # "admin") => resp.status = 403

C5_GroupOnlyByAdmin ==
    \A u \in UserIds \cap DOMAIN users' :
        users'[u].group # users[u].group =>
            resp'.op = "update_user" /\ resp'.group = "admin"

\* C5: update_user and delete_user on an existing user answer
\* Unauthenticated to an anonymous caller, let an authenticated caller
\* through iff it is an admin or the target, and apply a group field only
\* for an admin; no update_user of a non-admin changes a stored group.
C5_SelfOrAdmin == []C5_Decision /\ [][C5_GroupOnlyByAdmin]_vars

\* C6: in Required mode a request with no token, with a token that does not
\* verify, with a token without subject or with a subject that matches no
\* user fails with 401, and so does every request bearing a token issued to
\* a user that has since been deleted.
C6_RequiredUnauthenticated ==
    (/\ resp.op \in UserOps
     /\ \/ resp.cred = "none"
        \/ resp.sub = NULL
        \/ resp.caller = Anonymous
        \/ resp.holderGone) => resp.status = 401

\* C7: a token issued for s with life time ttl verifies to s at issuance and
\* while issuance + ttl is in the future, is Invalid at every time after
\* issuance + ttl, and an Invalid token resolves to no user in either mode.
C7_TokenLifetime ==
    (/\ resp.op \in {"get_current_user", "get_optional_user"}
     /\ resp.cred = "signed") =>
        /\ resp.at = resp.iat => resp.sub = resp.claimed
        /\ resp.at < resp.iat + resp.ttl => resp.sub = resp.claimed
        /\ resp.at > resp.iat + resp.ttl => resp.sub = NULL
        /\ resp.sub = NULL => resp.caller = Anonymous

\* the fields of the target that the body does not mention
Untouched(fields, keys, old, new) == \A f \in fields \ keys : new[f] = old[f]

C8_AdStep ==
    (resp = NoResponse /\ resp'.op = "update_ad") =>
        LET body == resp'.payload
            keys == ad_update_keys(body)
            t == resp'.target
        IN  /\ users' = users
            /\ DOMAIN ads' = AdIds
            /\ \A a \in AdIds \ {t} : ads'[a] = ads[a]
            /\ t \in AdIds =>
                 /\ Untouched(AdFields \cup {"created_at", "owner_id"}, keys,
                              ads[t], ads'[t])
                 /\ Allowed(resp') => \A f \in keys : ads'[t][f] = body[f]
                 /\ keys = {} => ads' = ads

C8_UserStep ==
    (resp = NoResponse /\ resp'.op = "update_user") =>
        LET body == resp'.payload
            keys == update_data_keys(body)
            t == resp'.target
        IN  /\ ads' = ads
            /\ DOMAIN users' = UserIds
            /\ \A u \in UserIds \ {t} : users'[u] = users[u]
            /\ t \in UserIds =>
                 /\ Untouched(UserFields, keys, users[t], users'[t])
                 /\ resp'.status = 200 =>
                      /\ \A f \in keys \ {"password"} : users'[t][f] = body[f]
                      /\ "password" \in keys =>
                            verify_password(body.password, users'[t].password)
                 /\ resp'.status # 200 => users' = users
                 /\ keys = {} => users' = users

\* C8: an update_ad or update_user that goes through applies exactly the
\* fields present in the body and leaves every other field of the target and
\* every other record as they were; an empty body changes nothing.
C8_PartialUpdate == [][C8_AdStep /\ C8_UserStep]_vars

\* an update with only {price: 10} has left the rest of the advertisement
C8_Witness ==
    /\ resp.op = "update_ad" /\ resp.status = 200
    /\ ad_update_keys(resp.payload) = {"price"}
    /\ resp.target \in AdIds
    /\ ads[resp.target].price = 10
    /\ ads[resp.target].title = "t1"
    /\ ads[resp.target].owner_id = resp.owner

\* C9 as claimed: on all four endpoints an id that is not stored ends with
\* 404 whatever the caller, never with 401 or 403.
C9_NotFoundFirst ==
    (resp.op \in AdOps \cup UserOps /\ ~resp.found) => resp.status = 404

\* C9 amended: update_ad and delete_ad answer 404 for an id that is not
\* stored whatever the caller; update_user and delete_user answer 404 for it
\* to a caller resolved to a user (never 403), and reject a caller that
\* resolves to no user before looking the id up (401; 401 or 403 when the
\* Authorization header is missing).
C9_NotFoundBeforeForbidden ==
    /\ (resp.op \in AdOps /\ ~resp.found) => resp.status = 404
    /\ (resp.op \in UserOps /\ ~resp.found) =>
          IF resp.caller # Anonymous THEN resp.status = 404
          ELSE IF resp.cred = "none" THEN resp.status \in {401, 403}
          ELSE resp.status = 401

\* a user that is no admin asked to update a user id that is not stored
C9_Witness ==
    /\ resp.op = "update_user" /\ ~resp.found
    /\ resp.caller # Anonymous /\ resp.group = "user"
    /\ resp.status = 404

\* C10: a request bearing the token that user U obtained at login is resolved
\* to the record with U's id or to no user.
C10_TokenBoundToHolder ==
    (resp.op \in AdOps \cup UserOps /\ resp.holder # 0
       /\ resp.caller # Anonymous) => resp.caller = resp.holder
====
